---- MODULE Spec2Model ----
(***************************************************************************)
(* The donut driver facade (pkg/api/resources.go, package donut): each    *)
(* facade method takes the driver's sync.RWMutex, validates its           *)
(* arguments and calls the underlying donut store.  Callers are           *)
(* goroutines; a call is four steps: entry, lock acquisition, the body    *)
(* of the method up to its return statement, and the deferred unlock.     *)
(*                                                                         *)
(* Strings are sequences of one-character strings, so that validation,    *)
(* trimming, prefix matching and ordering are computed.  The donut store, *)
(* the drivers.IsValid* predicates and the io helpers are not part of     *)
(* the two source files; they are modelled from the written              *)
(* specification of the storage engine.                                   *)
(***************************************************************************)
EXTENDS Integers, Sequences, FiniteSets, TLC

VARIABLES
    buckets,   \* store: bucket name -> [acl, created]
    shards,    \* store: <<bucket, key>> -> padded blocks written to the disks
    meta,      \* store: <<bucket, key>> -> object metadata (the commit point)
    clock,     \* store: logical time of the next creation
    readers,   \* d.lock: number of goroutines holding the read lock
    writer,    \* d.lock: TRUE while a goroutine holds the write lock
    pc,        \* per goroutine: "idle", "wait", "locked", "shards", "ret"
    call,      \* per goroutine: the method it is in and its arguments
    ret,       \* per goroutine: what the method returns (set at "ret")
    nilDonut,  \* d.donut == nil (the store constructor failed in Start)
    put,       \* history: <<bucket, key>> -> payload of the CreateObject that succeeded
    putArgs,   \* history: <<bucket, key>> -> content type given and digest returned
    paths,     \* d.paths: the disk paths Start was given
    startPc,   \* Start: "init" (not called), "spawned" (returned), "done"
    errorChannel, \* the error channel Start returns: [closed, sent]
    values,    \* api: the keys of a request's query, in the order a range yields them
    isACL,     \* api: what isRequestBucketACL returned for them
    fs,        \* disk: filesystem location -> "dir" or "file"
    disk,      \* disk: the Disk that New returned, [path, fsInfo]
    dret,      \* disk: the last Disk call, its result and the location it used
    openReaders \* store: object readers handed out by donut.GetObject and not closed

vars == <<buckets, shards, meta, clock, readers, writer, pc, call, ret, nilDonut, put,
          putArgs, paths, startPc, errorChannel, values, isACL, fs, disk, dret,
          openReaders>>

\* What the driver's methods never touch: startup, the query parser, the disks.
auxVars == <<paths, startPc, errorChannel, values, isACL, fs, disk, dret>>

storeVars == <<buckets, shards, meta, clock>>

----------------------------------------------------------------------------
(* Bounds of the model.                                                    *)

\* Number of goroutines calling the facade concurrently.
NumProcs == 2

\* Longest object payload, in bytes.
MaxLen == 3

\* Most creations (buckets and objects) the store accepts in one run.
MaxClock == 4

\* The encoder's block size B, in bytes (fixed per bucket).
BlockSize == 2

\* Calls that obtain an object reader stop once this many readers are open.
MaxOpenReaders == 2

Procs == 1 .. NumProcs

\* Go's nil: no error, no value.
None == "nil"

\* A goroutine outside the facade: no call, nothing returned.
NoCall == [op |-> "none"]
NoRet == [err |-> "unset"]

----------------------------------------------------------------------------
(* Strings.                                                                *)

\* The byte value of the characters the model uses (ASCII).
CharRank(c) ==
    CASE c = " " -> 32
      [] c = "-" -> 45
      [] c = "." -> 46
      [] c = "/" -> 47
      [] c = "1" -> 49
      [] c = "A" -> 65
      [] c = "a" -> 97
      [] c = "b" -> 98
      [] c = "c" -> 99
      [] c = "x" -> 120
      [] c = "y" -> 121
      [] c = "z" -> 122
      [] OTHER -> 255

\* Go's s < t on strings: bytewise lexicographic order.
RECURSIVE StrLess(_, _)
StrLess(s, t) ==
    IF t = <<>> THEN FALSE
    ELSE IF s = <<>> THEN TRUE
    ELSE IF CharRank(Head(s)) # CharRank(Head(t))
         THEN CharRank(Head(s)) < CharRank(Head(t))
         ELSE StrLess(Tail(s), Tail(t))

\* strings.TrimSpace
RECURSIVE TrimLeft(_)
TrimLeft(s) ==
    IF s # <<>> /\ Head(s) = " " THEN TrimLeft(Tail(s)) ELSE s

RECURSIVE TrimRight(_)
TrimRight(s) ==
    IF s # <<>> /\ s[Len(s)] = " " THEN TrimRight(SubSeq(s, 1, Len(s) - 1)) ELSE s

TrimSpace(s) == TrimRight(TrimLeft(s))

\* strings.Contains(s, ch) for a one-character needle
ContainsChar(s, ch) == \E i \in 1 .. Len(s) : s[i] = ch

\* strings.HasPrefix
HasPrefix(s, p) == Len(p) <= Len(s) /\ SubSeq(s, 1, Len(p)) = p

\* strings.Index: position of the first occurrence of d in s, 0 when absent
IndexOf(s, d) ==
    LET hits == {i \in 1 .. (Len(s) - Len(d) + 1) : SubSeq(s, i, i + Len(d) - 1) = d}
    IN IF hits = {} THEN 0 ELSE CHOOSE i \in hits : \A j \in hits : i <= j

\* sort.Strings / sort.Sort on a set of distinct strings: ascending sequence
RECURSIVE SortStrings(_)
SortStrings(S) ==
    IF S = {} THEN <<>>
    ELSE LET m == CHOOSE x \in S : \A y \in S \ {x} : StrLess(x, y)
         IN <<m>> \o SortStrings(S \ {m})

Range(f) == {f[i] : i \in DOMAIN f}

----------------------------------------------------------------------------
(* Name and ACL predicates of package drivers.                             *)

LowerDigitHyphenDot == {"a", "b", "c", "x", "y", "z", "1", "-", "."}

\* Shortest and longest bucket name.
MinBucketLen == 3
MaxBucketLen == 63

\* drivers.IsValidBucket: 3..63 characters, lowercase letters, digits,
\* hyphens; the dot is left to the facade, which rejects it separately.
IsValidBucket(name) ==
    /\ Len(name) >= MinBucketLen
    /\ Len(name) <= MaxBucketLen
    /\ \A i \in 1 .. Len(name) : name[i] \in LowerDigitHyphenDot

\* A byte that is not part of any UTF-8 sequence.
BadByte == "xFF"

\* drivers.IsValidObjectName: a UTF-8 byte sequence; the empty name passes
\* (it is the prefix of an unfiltered listing) and blank keys are left to
\* the facade's TrimSpace test.
IsValidObjectName(name) == \A i \in 1 .. Len(name) : name[i] # BadByte

ACLPrivate == <<"private">>
ACLPublicRead == <<"public-read">>
ACLPublicReadWrite == <<"public-read-write">>
ACLAuthenticatedRead == <<"authenticated-read">>

ValidACLs == {ACLPrivate, ACLPublicRead, ACLPublicReadWrite, ACLAuthenticatedRead}

\* drivers.IsValidBucketACL: one of the four ACLs, or the empty string.
IsValidBucketACL(acl) == acl \in ValidACLs \/ acl = <<>>

\* BucketResourcesMetadata.IsDelimiterSet
IsDelimiterSet(resources) == resources.Delimiter # <<>>

----------------------------------------------------------------------------
(* Digests and encodings.                                                  *)

\* MD5 of a payload: the digest, one value per payload (no collisions).
Md5(data) == ToString(data)

\* hex.EncodeToString
HexEncode(bytes) == <<"hex:", bytes>>

\* base64.StdEncoding.EncodeToString, as a client computes Content-MD5
Base64Encode(bytes) == <<"b64:", bytes>>

\* base64.StdEncoding.DecodeString: [err, bytes]
Base64Decode(s) ==
    IF Len(s) = 2 /\ s[1] = "b64:"
    THEN [err |-> None, bytes |-> s[2]]
    ELSE [err |-> "CorruptInputError", bytes |-> ""]

\* io.CopyN(dst, src, n): the bytes written and the error.  LimitReader
\* yields nothing for n <= 0, and a short source ends in io.EOF.
CopyN(src, n) ==
    IF n <= 0 THEN [written |-> <<>>, n |-> 0, err |-> None]
    ELSE IF Len(src) >= n
         THEN [written |-> SubSeq(src, 1, n), n |-> n, err |-> None]
         ELSE [written |-> src, n |-> Len(src), err |-> "EOF"]

\* What is left of a reader after n bytes have been consumed from it.
Drop(src, n) ==
    IF n <= 0 THEN src
    ELSE IF n >= Len(src) THEN <<>>
    ELSE SubSeq(src, n + 1, Len(src))

----------------------------------------------------------------------------
(* The donut store behind the facade (interface donut.Donut).  Its errors  *)
(* are the donut package's own types, written "donut.<Kind>".  The        *)
(* erasure coding of a block into k+m shards is not unfolded: a block is  *)
(* stored as the padded bytes the decoder gives back, and disks do not    *)
(* fail.                                                                   *)

Zeros(n) == [i \in 1 .. n |-> 0]

\* Encoder input: the payload cut into blocks of BlockSize bytes, the last
\* one zero-padded.
RECURSIVE Blocks(_)
Blocks(data) ==
    IF data = <<>> THEN <<>>
    ELSE IF Len(data) <= BlockSize
         THEN << data \o Zeros(BlockSize - Len(data)) >>
         ELSE << SubSeq(data, 1, BlockSize) >> \o Blocks(SubSeq(data, BlockSize + 1, Len(data)))

RECURSIVE Concat(_)
Concat(bs) == IF bs = <<>> THEN <<>> ELSE Head(bs) \o Concat(Tail(bs))

\* Decoder output: the blocks in order, padding of the final block stripped.
Decode(bs, size) == SubSeq(Concat(bs), 1, size)

\* donut.MakeBucket: [err, buckets, clock]
MakeBucket(name, acl) ==
    IF ~IsValidBucket(name) \/ ContainsChar(name, ".")
    THEN [err |-> "donut.BucketNameInvalid", buckets |-> buckets, clock |-> clock]
    ELSE IF name \in DOMAIN buckets
    THEN [err |-> "donut.BucketExists", buckets |-> buckets, clock |-> clock]
    ELSE [err |-> None,
          buckets |-> [n \in DOMAIN buckets \cup {name} |->
                          IF n = name THEN [acl |-> acl, created |-> clock]
                          ELSE buckets[n]],
          clock |-> clock + 1]

\* donut.GetBucketMetadata: [err, metadata]
StoreGetBucketMetadata(name) ==
    IF name \in DOMAIN buckets
    THEN [err |-> None,
          metadata |-> [Name |-> name, ACL |-> buckets[name].acl,
                        Created |-> buckets[name].created]]
    ELSE [err |-> "donut.BucketNotFound", metadata |-> None]

\* donut.SetBucketMetadata: [err, buckets]
StoreSetBucketMetadata(name, bucketMetadata) ==
    IF name \in DOMAIN buckets
    THEN [err |-> None,
          buckets |-> [buckets EXCEPT ![name].acl = bucketMetadata.acl]]
    ELSE [err |-> "donut.BucketNotFound", buckets |-> buckets]

\* donut.ListBuckets: name -> metadata
StoreListBuckets ==
    [err |-> None,
     buckets |-> [n \in DOMAIN buckets |->
                    [Name |-> n, ACL |-> buckets[n].acl, Created |-> buckets[n].created]]]

\* donut.PutObject, first half: the payload is encoded and the shards of
\* every block are written to the disks.  [err, shards]
PutObjectShards(bucket, object, data) ==
    IF bucket \notin DOMAIN buckets
    THEN [err |-> "donut.BucketNotFound", shards |-> shards]
    ELSE IF <<bucket, object>> \in DOMAIN meta
    THEN [err |-> "donut.ObjectExists", shards |-> shards]
    ELSE [err |-> None,
          shards |-> [o \in DOMAIN shards \cup {<<bucket, object>>} |->
                          IF o = <<bucket, object>> THEN Blocks(data) ELSE shards[o]]]

\* donut.PutObject, second half: the digest is compared, then the object
\* metadata is written (the commit point).  [err, md5, shards, meta, clock]
PutObjectCommit(bucket, object, expectedMD5Sum, data, metadata) ==
    LET o == <<bucket, object>>
        sum == HexEncode(Md5(data))
    IN IF expectedMD5Sum # <<>> /\ expectedMD5Sum # sum
       THEN [err |-> "donut.BadDigest", md5 |-> <<>>,
             shards |-> [x \in DOMAIN shards \ {o} |-> shards[x]],
             meta |-> meta, clock |-> clock]
       ELSE [err |-> None, md5 |-> sum, shards |-> shards,
             meta |-> [x \in DOMAIN meta \cup {o} |->
                         IF x = o
                         THEN [Size |-> Len(data), MD5Sum |-> sum, Created |-> clock,
                               Metadata |-> metadata]
                         ELSE meta[x]],
             clock |-> clock + 1]

\* donut.GetObject: [err, reader, size]
StoreGetObject(bucket, object) ==
    LET o == <<bucket, object>>
    IN IF bucket \notin DOMAIN buckets
       THEN [err |-> "donut.BucketNotFound", reader |-> <<>>, size |-> 0]
       ELSE IF o \notin DOMAIN meta
       THEN [err |-> "donut.ObjectNotFound", reader |-> <<>>, size |-> 0]
       ELSE [err |-> None, reader |-> Decode(shards[o], meta[o].Size),
             size |-> meta[o].Size]

\* donut.GetObjectMetadata: [err, metadata]
StoreGetObjectMetadata(bucket, object) ==
    LET o == <<bucket, object>>
    IN IF bucket \notin DOMAIN buckets
       THEN [err |-> "donut.BucketNotFound", metadata |-> None]
       ELSE IF o \notin DOMAIN meta
       THEN [err |-> "donut.ObjectNotFound", metadata |-> None]
       ELSE [err |-> None, metadata |-> meta[o]]

\* The first n elements of a sequence.
Take(s, n) == IF n >= Len(s) THEN s ELSE SubSeq(s, 1, n)

\* donut.ListObjects: [err, objects, prefixes, isTruncated].  The key
\* space is the set of key directories of the bucket; a delimited key is
\* replaced by its common prefix; truncation is to maxkeys object keys.
StoreListObjects(bucket, prefix, marker, delimiter, maxkeys) ==
    IF bucket \notin DOMAIN buckets
    THEN [err |-> "donut.BucketNotFound", objects |-> <<>>, prefixes |-> <<>>,
          isTruncated |-> FALSE]
    ELSE
      LET keys == {o[2] : o \in {x \in DOMAIN shards : x[1] = bucket}}
          kept == {k \in keys : HasPrefix(k, prefix) /\ StrLess(marker, k)}
          rest(k) == SubSeq(k, Len(prefix) + 1, Len(k))
          cut(k) == IF delimiter = <<>> THEN 0 ELSE IndexOf(rest(k), delimiter)
          plain == {k \in kept : cut(k) = 0}
          grouped == {prefix \o SubSeq(rest(k), 1, cut(k) + Len(delimiter) - 1) :
                        k \in kept \ plain}
          sorted == SortStrings(plain)
      IN [err |-> None,
          objects |-> Take(sorted, maxkeys),
          prefixes |-> SortStrings(grouped),
          isTruncated |-> Len(sorted) > maxkeys]

----------------------------------------------------------------------------
(* The facade: validation steps shared by the methods of donutDriver.      *)

\* As BucketNameBad, without the test for a dot.
BucketNameBadNoDot(bucketName) == ~IsValidBucket(bucketName)

\* !drivers.IsValidBucket(bucketName) || strings.Contains(bucketName, ".")
BucketNameBad(bucketName) ==
    ~IsValidBucket(bucketName) \/ ContainsChar(bucketName, ".")

\* !drivers.IsValidObjectName(objectName) || strings.TrimSpace(objectName) == ""
ObjectNameBad(objectName) ==
    ~IsValidObjectName(objectName) \/ TrimSpace(objectName) = <<>>

\* if strings.TrimSpace(acl) == "" { acl = "private" }
DefaultACL(acl) == IF TrimSpace(acl) = <<>> THEN ACLPrivate ELSE acl

\* As TakesWriteLock, with SetBucketMetadata taking the read lock.
TakesWriteLockNotSet(op) == op \in {"CreateBucket", "CreateObject"}

\* As TakesWriteLock, with CreateObject taking the read lock.
TakesWriteLockNotPut(op) == op \in {"CreateBucket", "SetBucketMetadata"}

\* The methods that take d.lock.Lock(); the others take d.lock.RLock().
TakesWriteLock(op) == op \in {"CreateBucket", "SetBucketMetadata", "CreateObject"}

\* sync.RWMutex: RLock succeeds while no writer holds the lock.
CanRLock == ~writer

\* sync.RWMutex: Lock succeeds while nobody holds the lock.
CanLock == ~writer /\ readers = 0

----------------------------------------------------------------------------
(* The facade: what each method returns, and the store it leaves.          *)
(* calls lists the store methods the body invoked, in order.               *)

\* drivers.BucketMetadata built by ListBuckets for one bucket
\* As byBucketNameLess, with the comparison turned round.
byBucketNameGreater(a, b) == StrLess(b, a)

\* byBucketName.Less, on the names of two entries
byBucketNameLess(a, b) == StrLess(a, b)

\* sort.Sort(byBucketName(results)), on the names of the entries: the map
\* of buckets is ranged over in no particular order, the sort fixes it.
RECURSIVE SortBucketNames(_)
SortBucketNames(S) ==
    IF S = {} THEN <<>>
    ELSE LET m == CHOOSE x \in S : \A y \in S \ {x} : byBucketNameLess(x, y)
         IN <<m>> \o SortBucketNames(S \ {m})

ListBucketsEntry(name, metadata) ==
    [Name |-> name, Created |-> metadata.Created, ACL |-> <<>>]

\* As DoListBuckets, without the test for a nil store.
DoListBucketsNoNilTest ==
    LET r == StoreListBuckets
        names == SortBucketNames(DOMAIN r.buckets)
    IN IF r.err # None
       THEN [err |-> r.err, results |-> <<>>, calls |-> <<"ListBuckets">>]
       ELSE [err |-> None,
             results |-> [i \in 1 .. Len(names) |->
                            ListBucketsEntry(names[i], r.buckets[names[i]])],
             calls |-> <<"ListBuckets">>]

DoListBuckets ==
    IF nilDonut
    THEN [err |-> "InternalError", results |-> <<>>, calls |-> <<>>]
    ELSE LET r == StoreListBuckets
             names == SortBucketNames(DOMAIN r.buckets)
         IN IF r.err # None
            THEN [err |-> r.err, results |-> <<>>, calls |-> <<"ListBuckets">>]
            ELSE [err |-> None,
                  results |-> [i \in 1 .. Len(names) |->
                                 ListBucketsEntry(names[i], r.buckets[names[i]])],
                  calls |-> <<"ListBuckets">>]

\* As CreateBucketError, without the case for donut.BucketExists.
CreateBucketErrorNoCase(err) == err

\* The error CreateBucket returns for an error of donut.MakeBucket.
CreateBucketError(err) == IF err = "donut.BucketExists" THEN "BucketExists" ELSE err

DoCreateBucket(bucketName, acl) ==
    IF nilDonut
    THEN [err |-> "InternalError", buckets |-> buckets, clock |-> clock, calls |-> <<>>]
    ELSE IF ~IsValidBucketACL(acl)
    THEN [err |-> "InvalidACL", buckets |-> buckets, clock |-> clock, calls |-> <<>>]
    ELSE IF ~BucketNameBad(bucketName)
    THEN LET r == MakeBucket(bucketName, DefaultACL(acl))
         IN [err |-> IF r.err # None THEN CreateBucketError(r.err) ELSE None,
             buckets |-> r.buckets, clock |-> r.clock, calls |-> <<"MakeBucket">>]
    ELSE [err |-> "BucketNameInvalid", buckets |-> buckets, clock |-> clock,
          calls |-> <<>>]

DoGetBucketMetadata(bucketName) ==
    IF nilDonut
    THEN [err |-> "InternalError", metadata |-> None, calls |-> <<>>]
    ELSE IF BucketNameBad(bucketName)
    THEN [err |-> "BucketNameInvalid", metadata |-> None, calls |-> <<>>]
    ELSE LET r == StoreGetBucketMetadata(bucketName)
         IN IF r.err # None
            THEN [err |-> "BucketNotFound", metadata |-> None,
                  calls |-> <<"GetBucketMetadata">>]
            ELSE [err |-> None,
                  metadata |-> [Name |-> bucketName, Created |-> r.metadata.Created,
                                ACL |-> r.metadata.ACL],
                  calls |-> <<"GetBucketMetadata">>]

DoSetBucketMetadata(bucketName, acl) ==
    IF nilDonut
    THEN [err |-> "InternalError", buckets |-> buckets, calls |-> <<>>]
    ELSE IF BucketNameBad(bucketName)
    THEN [err |-> "BucketNameInvalid", buckets |-> buckets, calls |-> <<>>]
    ELSE LET r == StoreSetBucketMetadata(bucketName, [acl |-> DefaultACL(acl)])
         IN [err |-> IF r.err # None THEN "BucketNotFound" ELSE None,
             buckets |-> r.buckets, calls |-> <<"SetBucketMetadata">>]

\* As DoGetObject, copying one byte less than the object's size.
DoGetObjectShort(bucketName, objectName) ==
    IF nilDonut
    THEN [err |-> "InternalError", n |-> 0, written |-> <<>>, calls |-> <<>>,
          obtained |-> 0, closed |-> 0]
    ELSE IF BucketNameBad(bucketName)
    THEN [err |-> "BucketNameInvalid", n |-> 0, written |-> <<>>, calls |-> <<>>,
          obtained |-> 0, closed |-> 0]
    ELSE IF ObjectNameBad(objectName)
    THEN [err |-> "ObjectNameInvalid", n |-> 0, written |-> <<>>, calls |-> <<>>,
          obtained |-> 0, closed |-> 0]
    ELSE LET r == StoreGetObject(bucketName, objectName)
             c == CopyN(r.reader, r.size - 1)
         IN IF r.err # None
            THEN [err |-> "ObjectNotFound", n |-> 0, written |-> <<>>,
                  calls |-> <<"GetObject">>,
                  obtained |-> 0, closed |-> 0]
            ELSE [err |-> c.err, n |-> c.n, written |-> c.written,
                  calls |-> <<"GetObject">>,
                  obtained |-> 1, closed |-> 0]

\* GetObject: [err, n, written, calls, obtained, closed].  obtained counts
\* the readers donut.GetObject handed out, closed the calls of reader.Close()
\* made before the method returns: GetObject has none.
DoGetObject(bucketName, objectName) ==
    IF nilDonut
    THEN [err |-> "InternalError", n |-> 0, written |-> <<>>, calls |-> <<>>,
          obtained |-> 0, closed |-> 0]
    ELSE IF BucketNameBad(bucketName)
    THEN [err |-> "BucketNameInvalid", n |-> 0, written |-> <<>>, calls |-> <<>>,
          obtained |-> 0, closed |-> 0]
    ELSE IF ObjectNameBad(objectName)
    THEN [err |-> "ObjectNameInvalid", n |-> 0, written |-> <<>>, calls |-> <<>>,
          obtained |-> 0, closed |-> 0]
    ELSE LET r == StoreGetObject(bucketName, objectName)
             c == CopyN(r.reader, r.size)
         IN IF r.err # None
            THEN [err |-> "ObjectNotFound", n |-> 0, written |-> <<>>,
                  calls |-> <<"GetObject">>,
                  obtained |-> 0, closed |-> 0]
            ELSE [err |-> c.err, n |-> c.n, written |-> c.written,
                  calls |-> <<"GetObject">>,
                  obtained |-> 1, closed |-> 0]

\* As RangeBad, refusing a range that ends at the last byte.
RangeBadTight(start, length, size) == start > size \/ (start + length) >= size

\* start > size || (start+length-1) > size
RangeBad(start, length, size) == start > size \/ (start + length - 1) > size

\* GetPartialObject: as GetObject; `defer reader.Close()` follows the store
\* call, so every return after it closes the reader.
DoGetPartialObject(bucketName, objectName, start, length) ==
    IF nilDonut
    THEN [err |-> "InternalError", n |-> 0, written |-> <<>>, calls |-> <<>>,
          obtained |-> 0, closed |-> 0]
    ELSE IF BucketNameBad(bucketName)
    THEN [err |-> "BucketNameInvalid", n |-> 0, written |-> <<>>, calls |-> <<>>,
          obtained |-> 0, closed |-> 0]
    ELSE IF ObjectNameBad(objectName)
    THEN [err |-> "ObjectNameInvalid", n |-> 0, written |-> <<>>, calls |-> <<>>,
          obtained |-> 0, closed |-> 0]
    ELSE IF start < 0
    THEN [err |-> "InvalidRange", n |-> 0, written |-> <<>>, calls |-> <<>>,
          obtained |-> 0, closed |-> 0]
    ELSE LET r == StoreGetObject(bucketName, objectName)
             skipped == CopyN(r.reader, start)
             c == CopyN(Drop(r.reader, start), length)
         IN IF r.err # None
            THEN [err |-> "ObjectNotFound", n |-> 0, written |-> <<>>,
                  calls |-> <<"GetObject">>,
                  obtained |-> 0, closed |-> 0]
            ELSE IF RangeBad(start, length, r.size)
            THEN [err |-> "InvalidRange", n |-> 0, written |-> <<>>,
                  calls |-> <<"GetObject">>,
                  obtained |-> 1, closed |-> 1]
            ELSE IF skipped.err # None
            THEN [err |-> skipped.err, n |-> 0, written |-> <<>>,
                  calls |-> <<"GetObject">>,
                  obtained |-> 1, closed |-> 1]
            ELSE IF c.err # None
            THEN [err |-> c.err, n |-> 0, written |-> c.written,
                  calls |-> <<"GetObject">>,
                  obtained |-> 1, closed |-> 1]
            ELSE [err |-> None, n |-> c.n, written |-> c.written,
                  calls |-> <<"GetObject">>,
                  obtained |-> 1, closed |-> 1]

DoGetObjectMetadata(bucketName, objectName) ==
    IF nilDonut
    THEN [err |-> "InternalError", metadata |-> None, calls |-> <<>>]
    ELSE IF BucketNameBad(bucketName)
    THEN [err |-> "BucketNameInvalid", metadata |-> None, calls |-> <<>>]
    ELSE IF ObjectNameBad(objectName)
    THEN [err |-> "ObjectNameInvalid", metadata |-> None, calls |-> <<>>]
    ELSE LET r == StoreGetObjectMetadata(bucketName, objectName)
         IN IF r.err # None
            THEN [err |-> "ObjectNotFound", metadata |-> None,
                  calls |-> <<"GetObjectMetadata">>]
            ELSE [err |-> None,
                  metadata |-> [Bucket |-> bucketName, Key |-> objectName,
                                ContentType |-> r.metadata.Metadata.contentType,
                                Created |-> r.metadata.Created,
                                Md5 |-> r.metadata.MD5Sum,
                                Size |-> r.metadata.Size],
                  calls |-> <<"GetObjectMetadata">>]

\* drivers.ObjectMetadata built by ListObjects for one key
ListObjectsEntry(objectName, objectMetadata) ==
    [Key |-> objectName, Created |-> objectMetadata.Created,
     Size |-> objectMetadata.Size, Md5 |-> <<>>]

\* As LastOf, taking the first key.
FirstOf(actualObjects) == actualObjects[1]

\* resources.NextMarker = actualObjects[len(actualObjects)-1]
LastOf(actualObjects) == actualObjects[Len(actualObjects)]

NoResources == [Prefix |-> <<>>, Marker |-> <<>>, Delimiter |-> <<>>, Maxkeys |-> 0,
                NextMarker |-> <<>>, CommonPrefixes |-> <<>>, IsTruncated |-> FALSE]

DoListObjects(bucketName, resources) ==
    IF nilDonut
    THEN [err |-> "InternalError", results |-> <<>>, resources |-> NoResources,
          calls |-> <<>>]
    ELSE IF BucketNameBad(bucketName)
    THEN [err |-> "BucketNameInvalid", results |-> <<>>, resources |-> NoResources,
          calls |-> <<>>]
    ELSE IF ~IsValidObjectName(resources.Prefix)
    THEN [err |-> "ObjectNameInvalid", results |-> <<>>, resources |-> NoResources,
          calls |-> <<>>]
    ELSE
      LET r == StoreListObjects(bucketName, resources.Prefix, resources.Marker,
                                resources.Delimiter, resources.Maxkeys)
          res1 == [resources EXCEPT !.CommonPrefixes = r.prefixes,
                                    !.IsTruncated = r.isTruncated]
          setsMarker == res1.IsTruncated /\ IsDelimiterSet(res1)
          res2 == IF setsMarker
                  THEN [res1 EXCEPT !.NextMarker = LastOf(r.objects)]
                  ELSE res1
          md(k) == StoreGetObjectMetadata(bucketName, k)
          failed == {i \in 1 .. Len(r.objects) : md(r.objects[i]).err # None}
          first == CHOOSE i \in failed : \A j \in failed : i <= j
          keys == SortStrings(Range(r.objects))
          gets(n) == [i \in 1 .. n |-> "GetObjectMetadata"]
      IN IF r.err # None
         THEN [err |-> r.err, results |-> <<>>, resources |-> NoResources,
               calls |-> <<"ListObjects">>]
         ELSE IF setsMarker /\ r.objects = <<>>
         THEN [err |-> "panic: index out of range", results |-> <<>>,
               resources |-> NoResources, calls |-> <<"ListObjects">>]
         ELSE IF failed # {}
         THEN [err |-> md(r.objects[first]).err, results |-> <<>>,
               resources |-> NoResources,
               calls |-> <<"ListObjects">> \o gets(first)]
         ELSE [err |-> None,
               results |-> [i \in 1 .. Len(keys) |->
                              ListObjectsEntry(keys[i], md(keys[i]).metadata)],
               resources |-> res2,
               calls |-> <<"ListObjects">> \o gets(Len(r.objects))]

\* As ContentTypeOf, without the default for a blank content type.
ContentTypeOfNoDefault(contentType) == TrimSpace(contentType)

\* if strings.TrimSpace(contentType) == "" { contentType = "application/octet-stream" }
\* metadata["contentType"] = strings.TrimSpace(contentType)
ContentTypeOf(contentType) ==
    IF TrimSpace(contentType) = <<>>
    THEN <<"application/octet-stream">>
    ELSE TrimSpace(contentType)

\* strconv.FormatInt(size, 10)
FormatInt(size) == <<"dec", size>>

\* The metadata map CreateObject hands to donut.PutObject.
ObjectMetadataMap(contentType, size) ==
    [contentType |-> ContentTypeOf(contentType), contentLength |-> FormatInt(size)]

\* The expected digest CreateObject hands to donut.PutObject: [err, sum]
ExpectedSum(expectedMD5Sum) ==
    IF TrimSpace(expectedMD5Sum) # <<>>
    THEN LET d == Base64Decode(TrimSpace(expectedMD5Sum))
         IN IF d.err # None
            THEN [err |-> d.err, sum |-> <<>>]
            ELSE [err |-> None, sum |-> HexEncode(d.bytes)]
    ELSE [err |-> None, sum |-> expectedMD5Sum]

\* CreateObject up to the point where donut.PutObject has written the
\* shards: [err, done, shards, calls, expected].  done is FALSE while
\* PutObject is running; expected is the digest PutObject was handed.
DoCreateObject(c) ==
    IF nilDonut
    THEN [err |-> "InternalError", done |-> TRUE, shards |-> shards, calls |-> <<>>,
          expected |-> <<>>]
    ELSE IF BucketNameBad(c.bucket)
    THEN [err |-> "BucketNameInvalid", done |-> TRUE, shards |-> shards, calls |-> <<>>,
          expected |-> <<>>]
    ELSE IF ObjectNameBad(c.key)
    THEN [err |-> "ObjectNameInvalid", done |-> TRUE, shards |-> shards, calls |-> <<>>,
          expected |-> <<>>]
    ELSE IF ExpectedSum(c.md5).err # None
    THEN [err |-> ExpectedSum(c.md5).err, done |-> TRUE, shards |-> shards,
          calls |-> <<>>, expected |-> <<>>]
    ELSE LET r == PutObjectShards(c.bucket, c.key, c.data)
         IN [err |-> r.err, done |-> r.err # None, shards |-> r.shards,
             calls |-> <<"PutObject">>, expected |-> ExpectedSum(c.md5).sum]

\* The rest of CreateObject: donut.PutObject commits or fails, and the
\* facade returns the calculated digest.
DoCreateObjectCommit(c) ==
    PutObjectCommit(c.bucket, c.key, ExpectedSum(c.md5).sum, c.data,
                    ObjectMetadataMap(c.contentType, c.size))

----------------------------------------------------------------------------
(* Paths and the filesystem under the disks (package os, path/filepath).   *)
(* A path is its sequence of elements, an absolute one starting with "/". *)
(* fs maps each existing location, a cleaned absolute path, to its kind.  *)

IsAbs(path) == path # <<>> /\ Head(path) = "/"

\* filepath.Clean on the elements after the root: "." is dropped, ".."
\* removes the element before it, and is dropped at the root.
RECURSIVE CleanElems(_, _, _)
CleanElems(todo, done, abs) ==
    IF todo = <<>> THEN done
    ELSE LET e == Head(todo)
             rest == Tail(todo)
         IN IF e = "." THEN CleanElems(rest, done, abs)
            ELSE IF e = ".."
            THEN IF done # <<>> /\ done[Len(done)] # ".."
                 THEN CleanElems(rest, SubSeq(done, 1, Len(done) - 1), abs)
                 ELSE IF abs THEN CleanElems(rest, done, abs)
                 ELSE CleanElems(rest, Append(done, e), abs)
            ELSE CleanElems(rest, Append(done, e), abs)

\* filepath.Clean
Clean(path) ==
    IF IsAbs(path) THEN <<"/">> \o CleanElems(Tail(path), <<>>, TRUE)
    ELSE LET c == CleanElems(path, <<>>, FALSE)
         IN IF c = <<>> THEN <<".">> ELSE c

\* filepath.Join(a, b): empty elements are ignored, the rest is joined by
\* the separator and cleaned, so a leading "/" of b does not restart the path.
Join(a, b) ==
    IF a = <<>> /\ b = <<>> THEN <<>>
    ELSE IF a = <<>> THEN Clean(b)
    ELSE Clean(a \o (IF IsAbs(b) THEN Tail(b) ELSE b))

\* filepath.Dir of a cleaned path
Dir(path) ==
    IF Len(path) <= 1 THEN (IF IsAbs(path) THEN path ELSE <<".">>)
    ELSE SubSeq(path, 1, Len(path) - 1)

Prefixes(loc) == {SubSeq(loc, 1, n) : n \in 1 .. Len(loc)}

Exists(loc) == loc \in DOMAIN fs

IsDir(loc) == Exists(loc) /\ fs[loc] = "dir"

\* Some element of the path that should be a directory is a file.
ThroughFile(loc) == \E q \in Prefixes(loc) \ {loc} : Exists(q) /\ fs[q] = "file"

\* os.MkdirAll(loc, 0700) on filesystem f: [err, fs]
MkdirAllIn(f, loc) ==
    IF \E q \in Prefixes(loc) : q \in DOMAIN f /\ f[q] = "file"
    THEN [err |-> "ENOTDIR", fs |-> f]
    ELSE [err |-> None,
          fs |-> [q \in DOMAIN f \cup Prefixes(loc) |->
                    IF q \in DOMAIN f THEN f[q] ELSE "dir"]]

MkdirAll(loc) == MkdirAllIn(fs, loc)

\* os.Stat / os.Open: the error for a location, nil when it exists
StatErr(loc) ==
    IF ThroughFile(loc) THEN "ENOTDIR"
    ELSE IF ~Exists(loc) THEN "ENOENT"
    ELSE None

\* The magic number syscall.Statfs reports for the filesystem of a location.
StatfsType(loc) == IF Len(loc) >= 2 /\ loc[2] = "weird" THEN 12345 ELSE 61267

\* getFSType: the tag of a recognized filesystem magic, else "UNKNOWN"
getFSType(t) ==
    CASE t = 61267 -> "EXT4"
      [] t = 1481003842 -> "XFS"
      [] OTHER -> "UNKNOWN"

\* dir.Readdir(-1): the entries of a directory, by name
Entries(loc) == {q \in DOMAIN fs : Len(q) = Len(loc) + 1 /\ HasPrefix(q, loc)}

----------------------------------------------------------------------------
(* Package disk (pkg/storage/donut/disk/disk.go).                          *)

\* Disk{}
NoDisk == [path |-> <<>>, fsInfo |-> <<>>]

NoDiskRet == [op |-> "none", err |-> "unset", touched |-> {}]

\* As DoNew, without the test that the path is a directory.
DoNewNoDirTest(diskPath) ==
    IF diskPath = <<>>
    THEN [disk |-> NoDisk, err |-> "InvalidArgument"]
    ELSE IF StatErr(Clean(diskPath)) # None
    THEN [disk |-> NoDisk, err |-> StatErr(Clean(diskPath))]
    ELSE IF getFSType(StatfsType(Clean(diskPath))) # "UNKNOWN"
    THEN [disk |-> [path |-> diskPath,
                    fsInfo |-> [FSType |-> getFSType(StatfsType(Clean(diskPath))),
                                MountPoint |-> diskPath]],
          err |-> None]
    ELSE [disk |-> NoDisk, err |-> "UnsupportedFilesystem"]

\* New(diskPath): [disk, err]
DoNew(diskPath) ==
    IF diskPath = <<>>
    THEN [disk |-> NoDisk, err |-> "InvalidArgument"]
    ELSE IF StatErr(Clean(diskPath)) # None
    THEN [disk |-> NoDisk, err |-> StatErr(Clean(diskPath))]
    ELSE IF ~IsDir(Clean(diskPath))
    THEN [disk |-> NoDisk, err |-> "ENOTDIR"]
    ELSE IF getFSType(StatfsType(Clean(diskPath))) # "UNKNOWN"
    THEN [disk |-> [path |-> diskPath,
                    fsInfo |-> [FSType |-> getFSType(StatfsType(Clean(diskPath))),
                                MountPoint |-> diskPath]],
          err |-> None]
    ELSE [disk |-> NoDisk, err |-> "UnsupportedFilesystem"]

\* The other variables of the model, for the steps of package disk.
notDisk == <<buckets, shards, meta, clock, readers, writer, pc, call, ret, nilDonut,
             put, putArgs, openReaders, paths, startPc, errorChannel, values, isACL>>

New(diskPath) ==
    /\ disk' = DoNew(diskPath).disk
    /\ dret' = [op |-> "New", arg |-> diskPath, err |-> DoNew(diskPath).err,
                touched |-> {}]
    /\ UNCHANGED <<fs, notDisk>>

\* The Disk is one that New returned without error.
Usable == disk # NoDisk

MakeDir(dirname) ==
    /\ Usable
    /\ LET loc == Join(disk.path, dirname)
           r == MkdirAll(loc)
       IN /\ fs' = r.fs
          /\ dret' = [op |-> "MakeDir", arg |-> dirname, err |-> r.err,
                      touched |-> {loc}]
    /\ UNCHANGED <<disk, notDisk>>

\* os.Open followed by dir.Readdir(-1): [err, entries]
OpenAndRead(loc) ==
    IF StatErr(loc) # None THEN [err |-> StatErr(loc), entries |-> {}]
    ELSE IF ~IsDir(loc) THEN [err |-> "ENOTDIR", entries |-> {}]
    ELSE [err |-> None, entries |-> Entries(loc)]

ListDir(dirname) ==
    /\ Usable
    /\ LET loc == Join(disk.path, dirname)
           r == OpenAndRead(loc)
       IN dret' = [op |-> "ListDir", arg |-> dirname, err |-> r.err,
                   touched |-> {loc},
                   out |-> {q \in r.entries : fs[q] = "dir"}]
    /\ UNCHANGED <<fs, disk, notDisk>>

ListFiles(dirname) ==
    /\ Usable
    /\ LET loc == Join(disk.path, dirname)
           r == OpenAndRead(loc)
       IN dret' = [op |-> "ListFiles", arg |-> dirname, err |-> r.err,
                   touched |-> {loc},
                   out |-> {q \in r.entries : fs[q] = "file"}]
    /\ UNCHANGED <<fs, disk, notDisk>>

\* touched holds the directories MkdirAll made and the file handed to
\* os.OpenFile.
CreateFile(filename) ==
    /\ Usable
    /\ IF filename = <<>>
       THEN /\ dret' = [op |-> "CreateFile", arg |-> filename,
                        err |-> "InvalidArgument", touched |-> {}]
            /\ fs' = fs
       ELSE LET filePath == Join(disk.path, filename)
                m == MkdirAll(Dir(filePath))
                made == DOMAIN m.fs \ DOMAIN fs
            IN IF m.err # None
               THEN /\ dret' = [op |-> "CreateFile", arg |-> filename, err |-> m.err,
                                touched |-> made]
                    /\ fs' = m.fs
               ELSE IF filePath \in DOMAIN m.fs /\ m.fs[filePath] = "dir"
               THEN /\ dret' = [op |-> "CreateFile", arg |-> filename, err |-> "EISDIR",
                                touched |-> made \cup {filePath}]
                    /\ fs' = m.fs
               ELSE /\ dret' = [op |-> "CreateFile", arg |-> filename, err |-> None,
                                touched |-> made \cup {filePath}]
                    /\ fs' = [q \in DOMAIN m.fs \cup {filePath} |->
                                IF q = filePath THEN "file" ELSE m.fs[q]]
    /\ UNCHANGED <<disk, notDisk>>

OpenFile(filename) ==
    /\ Usable
    /\ IF filename = <<>>
       THEN dret' = [op |-> "OpenFile", arg |-> filename, err |-> "InvalidArgument",
                     touched |-> {}]
       ELSE LET loc == Join(disk.path, filename)
            IN dret' = [op |-> "OpenFile", arg |-> filename, err |-> StatErr(loc),
                        touched |-> {loc}]
    /\ UNCHANGED <<fs, disk, notDisk>>

PathRoot == <<"/">>
PathMnt == <<"/", "mnt">>
PathD0 == <<"/", "mnt", "d0">>
PathFile == <<"/", "mnt", "f">>
PathWeird == <<"/", "weird">>
PathNope == <<"/", "mnt", "nope">>

\* The filesystem before any disk is opened: two directories below /mnt
\* are candidates, /mnt/f is a regular file, /weird is a mount of a
\* filesystem the disk layer does not recognize.
InitialFs ==
    [q \in {PathRoot, PathMnt, PathD0, PathFile, PathWeird} |->
        IF q = PathFile THEN "file" ELSE "dir"]

DiskIdle == fs = InitialFs /\ disk = NoDisk /\ dret = NoDiskRet

\* The paths callers open as disks, and the names they pass to a Disk.
DiskPaths == {<<>>, PathD0, PathFile, PathWeird, PathNope}

DiskNames == {<<>>, <<"a">>, <<"a", "b">>, <<"/", "a">>, <<"..", "x">>, <<".">>}

NextDisk ==
    \/ \E diskPath \in DiskPaths : New(diskPath)
    \/ \E name \in DiskNames :
          \/ MakeDir(name)
          \/ ListDir(name)
          \/ ListFiles(name)
          \/ CreateFile(name)
          \/ OpenFile(name)

----------------------------------------------------------------------------
(* The query parser (getBucketResources' neighbour isRequestBucketACL).    *)
(* values is the sequence of keys in the order `range values` yields them. *)

\* for key := range values { if key == "acl" { return true } else
\* { return false } }; return false
isRequestBucketACL(vals) ==
    IF vals = <<>> THEN "false"
    ELSE IF Head(vals) = "acl" THEN "true"
    ELSE "false"

\* The other variables of the model, for the steps of the parser.
notQuery == <<buckets, shards, meta, clock, readers, writer, pc, call, ret, nilDonut,
              put, putArgs, openReaders, paths, startPc, errorChannel, fs, disk, dret>>

IsRequestBucketACL ==
    /\ isACL = "unset"
    /\ isACL' = isRequestBucketACL(values)
    /\ UNCHANGED <<values, notQuery>>

QueryKeys == {"acl", "prefix", "marker", "delimiter", "max-keys"}

\* Every order in which the keys of a set can be yielded.
Orders(S) ==
    {v \in [1 .. Cardinality(S) -> S] : \A i, j \in DOMAIN v : i # j => v[i] # v[j]}

----------------------------------------------------------------------------
(* Startup (Start, start, createNodeDiskMap, createNodeDiskMapFromSlice). *)

NumLocalDisks == 16

\* strconv.Itoa(i)
Itoa(i) == ToString(i)

\* The disk paths of createNodeDiskMap (one path given) and of
\* createNodeDiskMapFromSlice (any other number), in order.
NodeDisks(ps) ==
    IF Len(ps) = 1
    THEN [i \in 1 .. NumLocalDisks |-> Join(ps[1], <<Itoa(i - 1)>>)]
    ELSE [i \in 1 .. Len(ps) |-> Join(ps[i], <<Itoa(i - 1)>>)]

\* if os.IsNotExist(err) { os.MkdirAll(diskPath, 0700) } for each disk
\* path, in order; the result of MkdirAll is ignored.
RECURSIVE MakeNodeDisks(_, _)
MakeNodeDisks(f, ds) ==
    IF ds = <<>> THEN f
    ELSE LET loc == Head(ds)
             through == \E q \in Prefixes(loc) \ {loc} : q \in DOMAIN f /\ f[q] = "file"
         IN IF loc \notin DOMAIN f /\ ~through
            THEN MakeNodeDisks(MkdirAllIn(f, loc).fs, Tail(ds))
            ELSE MakeNodeDisks(f, Tail(ds))

NoChannel == [state |-> "none", sent |-> 0]

\* make(chan error)
MakeChannel == [state |-> "open", sent |-> 0]

\* As CloseChannel, sending a value instead.
SendOnChannel(ch) == [ch EXCEPT !.sent = ch.sent + 1]

\* close(errorChannel)
CloseChannel(ch) == [ch EXCEPT !.state = "closed"]

\* The other variables of the model, for the steps of startup.
notStart == <<buckets, shards, meta, clock, readers, writer, pc, call, ret,
              put, putArgs, openReaders, values, isACL, disk, dret>>

\* Start(paths) up to its return.  built tells whether donut.NewDonut
\* returned a store; when it fails its error is logged and d stays nil.
Start(ps, built) ==
    /\ startPc = "init"
    /\ errorChannel' = MakeChannel
    /\ fs' = MakeNodeDisks(fs, NodeDisks(ps))
    /\ nilDonut' = ~built
    /\ paths' = ps
    /\ startPc' = "spawned"
    /\ UNCHANGED notStart

\* The goroutine start(ctrlChannel, errorChannel, s)
StartGoroutine ==
    /\ startPc = "spawned"
    /\ errorChannel' = CloseChannel(errorChannel)
    /\ startPc' = "done"
    /\ UNCHANGED <<fs, nilDonut, paths, notStart>>

\* The lists of paths Start is given: none, one, two, a regular file.
PathLists == {<<>>, <<PathD0>>, <<PathD0, PathNope>>, <<PathFile>>, <<PathWeird, PathD0>>}

----------------------------------------------------------------------------
(* The goroutines.                                                         *)

\* An empty store, a free lock and no goroutine inside the facade.
DriverIdle ==
    /\ buckets = <<>>
    /\ shards = <<>>
    /\ meta = <<>>
    /\ put = <<>>
    /\ putArgs = <<>>
    /\ openReaders = 0
    /\ clock = 0
    /\ readers = 0
    /\ writer = FALSE
    /\ pc = [p \in Procs |-> "idle"]
    /\ call = [p \in Procs |-> NoCall]
    /\ ret = [p \in Procs |-> NoRet]

\* No query has been parsed.
QueryIdle == values = <<>> /\ isACL = "unset"

\* Start has returned a driver for one disk path and its goroutine has
\* closed the error channel; the store constructor succeeded or failed.
Init ==
    /\ DriverIdle
    /\ nilDonut \in BOOLEAN
    /\ paths = <<PathD0>>
    /\ startPc = "done"
    /\ errorChannel = [state |-> "closed", sent |-> 0]
    /\ QueryIdle
    /\ DiskIdle

IsOp(p, op) == call[p].op = op

\* A goroutine enters a facade method with arguments c.
Begin(p, c) ==
    /\ pc[p] = "idle"
    /\ startPc # "init"
    /\ (c.op \in {"CreateBucket", "CreateObject"}) => clock < MaxClock
    /\ (c.op \in {"GetObject", "GetPartialObject"}) => openReaders < MaxOpenReaders
    /\ pc' = [pc EXCEPT ![p] = "wait"]
    /\ call' = [call EXCEPT ![p] = c]
    /\ UNCHANGED <<storeVars, put, putArgs, openReaders, readers, writer, ret, nilDonut, auxVars>>

\* d.lock.RLock() or d.lock.Lock(), the first statement of every method.
Acquire(p) ==
    /\ pc[p] = "wait"
    /\ IF TakesWriteLock(call[p].op)
       THEN CanLock /\ writer' = TRUE /\ readers' = readers
       ELSE CanRLock /\ readers' = readers + 1 /\ writer' = writer
    /\ pc' = [pc EXCEPT ![p] = "locked"]
    /\ UNCHANGED <<storeVars, put, putArgs, openReaders, call, ret, nilDonut, auxVars>>

\* defer d.lock.RUnlock() or defer d.lock.Unlock(): runs as the method returns.
Release(p) ==
    /\ pc[p] = "ret"
    /\ IF TakesWriteLock(call[p].op)
       THEN writer' = FALSE /\ readers' = readers
       ELSE readers' = readers - 1 /\ writer' = writer
    /\ pc' = [pc EXCEPT ![p] = "idle"]
    /\ call' = [call EXCEPT ![p] = NoCall]
    /\ ret' = [ret EXCEPT ![p] = NoRet]
    /\ UNCHANGED <<storeVars, put, putArgs, openReaders, nilDonut, auxVars>>

\* The body of a method that leaves the store alone returns r.
Return(p, r) ==
    /\ pc' = [pc EXCEPT ![p] = "ret"]
    /\ ret' = [ret EXCEPT ![p] = r]
    /\ UNCHANGED <<call, readers, writer, nilDonut, auxVars>>

ListBuckets(p) ==
    /\ pc[p] = "locked" /\ IsOp(p, "ListBuckets")
    /\ Return(p, DoListBuckets)
    /\ UNCHANGED <<storeVars, put, putArgs, openReaders>>

CreateBucket(p) ==
    /\ pc[p] = "locked" /\ IsOp(p, "CreateBucket")
    /\ LET r == DoCreateBucket(call[p].bucket, call[p].acl)
       IN /\ buckets' = r.buckets
          /\ clock' = r.clock
          /\ Return(p, [err |-> r.err, calls |-> r.calls])
    /\ UNCHANGED <<shards, meta, put, putArgs, openReaders>>

GetBucketMetadata(p) ==
    /\ pc[p] = "locked" /\ IsOp(p, "GetBucketMetadata")
    /\ Return(p, DoGetBucketMetadata(call[p].bucket))
    /\ UNCHANGED <<storeVars, put, putArgs, openReaders>>

SetBucketMetadata(p) ==
    /\ pc[p] = "locked" /\ IsOp(p, "SetBucketMetadata")
    /\ LET r == DoSetBucketMetadata(call[p].bucket, call[p].acl)
       IN /\ buckets' = r.buckets
          /\ Return(p, [err |-> r.err, calls |-> r.calls])
    /\ UNCHANGED <<shards, meta, clock, put, putArgs, openReaders>>

GetObject(p) ==
    /\ pc[p] = "locked" /\ IsOp(p, "GetObject")
    /\ LET r == DoGetObject(call[p].bucket, call[p].key)
       IN /\ Return(p, r)
          /\ openReaders' = openReaders + r.obtained - r.closed
    /\ UNCHANGED <<storeVars, put, putArgs>>

GetPartialObject(p) ==
    /\ pc[p] = "locked" /\ IsOp(p, "GetPartialObject")
    /\ LET r == DoGetPartialObject(call[p].bucket, call[p].key,
                                   call[p].start, call[p].length)
       IN /\ Return(p, r)
          /\ openReaders' = openReaders + r.obtained - r.closed
    /\ UNCHANGED <<storeVars, put, putArgs>>

GetObjectMetadata(p) ==
    /\ pc[p] = "locked" /\ IsOp(p, "GetObjectMetadata")
    /\ Return(p, DoGetObjectMetadata(call[p].bucket, call[p].key))
    /\ UNCHANGED <<storeVars, put, putArgs, openReaders>>

ListObjects(p) ==
    /\ pc[p] = "locked" /\ IsOp(p, "ListObjects")
    /\ Return(p, DoListObjects(call[p].bucket, call[p].resources))
    /\ UNCHANGED <<storeVars, put, putArgs, openReaders>>

CreateObject(p) ==
    /\ pc[p] = "locked" /\ IsOp(p, "CreateObject")
    /\ LET r == DoCreateObject(call[p])
       IN /\ shards' = r.shards
          /\ pc' = [pc EXCEPT ![p] = IF r.done THEN "ret" ELSE "shards"]
          /\ ret' = [ret EXCEPT ![p] =
                        IF r.done
                        THEN [err |-> r.err, md5 |-> <<>>, calls |-> r.calls,
                              expected |-> r.expected]
                        ELSE NoRet]
    /\ UNCHANGED <<buckets, meta, clock, put, putArgs, openReaders, call, readers, writer, nilDonut, auxVars>>

CreateObjectCommit(p) ==
    /\ pc[p] = "shards"
    /\ LET r == DoCreateObjectCommit(call[p])
           o == <<call[p].bucket, call[p].key>>
       IN /\ shards' = r.shards
          /\ meta' = r.meta
          /\ clock' = r.clock
          /\ put' = IF r.err = None
                    THEN [x \in DOMAIN put \cup {o} |->
                            IF x = o THEN call[p].data ELSE put[x]]
                    ELSE put
          /\ putArgs' = IF r.err = None
                        THEN [x \in DOMAIN putArgs \cup {o} |->
                                IF x = o
                                THEN [contentType |-> call[p].contentType, md5 |-> r.md5]
                                ELSE putArgs[x]]
                        ELSE putArgs
          /\ Return(p, [err |-> r.err, md5 |-> r.md5, calls |-> <<"PutObject">>,
                        expected |-> ExpectedSum(call[p].md5).sum])
    /\ UNCHANGED <<buckets, openReaders>>

----------------------------------------------------------------------------
(* The arguments callers pass.  A domain D fixes the set every argument   *)
(* is drawn from; the specifications below differ only in their domains.  *)

\* Payloads <<>>, <<0>>, <<0, 1>>, ...: every byte names its position.
Payload(n) == [i \in 1 .. n |-> i - 1]

Resources(D) ==
    {[Prefix |-> x, Marker |-> m, Delimiter |-> d, Maxkeys |-> k, NextMarker |-> nm,
      CommonPrefixes |-> <<>>, IsTruncated |-> FALSE] :
        x \in D.prefixes, m \in D.markers, d \in D.delims, k \in D.maxkeys,
        nm \in D.nextmarkers}

Calls(D) ==
    {[op |-> "ListBuckets"]}
    \cup {[op |-> "CreateBucket", bucket |-> b, acl |-> a] :
            b \in D.buckets, a \in D.acls}
    \cup {[op |-> "GetBucketMetadata", bucket |-> b] : b \in D.buckets}
    \cup {[op |-> "SetBucketMetadata", bucket |-> b, acl |-> a] :
            b \in D.buckets, a \in D.acls}
    \cup {[op |-> "GetObject", bucket |-> b, key |-> k] :
            b \in D.buckets, k \in D.keys}
    \cup {[op |-> "GetPartialObject", bucket |-> b, key |-> k, start |-> st,
           length |-> ln] :
            b \in D.buckets, k \in D.keys, st \in D.starts, ln \in D.lengths}
    \cup {[op |-> "GetObjectMetadata", bucket |-> b, key |-> k] :
            b \in D.buckets, k \in D.keys}
    \cup {[op |-> "ListObjects", bucket |-> b, resources |-> r] :
            b \in D.buckets, r \in Resources(D)}
    \cup {[op |-> "CreateObject", bucket |-> b, key |-> k, contentType |-> ct,
           md5 |-> m, size |-> Len(d), data |-> d] :
            b \in D.buckets, k \in D.keys, ct \in D.ctypes, m \in D.md5s,
            d \in D.payloads}

\* One goroutine of P takes one step; its calls are drawn from Calls(D).
NextOver(P, D) ==
    \E p \in P :
        \/ \E c \in Calls(D) : Begin(p, c)
        \/ Acquire(p)
        \/ ListBuckets(p)
        \/ CreateBucket(p)
        \/ GetBucketMetadata(p)
        \/ SetBucketMetadata(p)
        \/ GetObject(p)
        \/ GetPartialObject(p)
        \/ GetObjectMetadata(p)
        \/ ListObjects(p)
        \/ CreateObject(p)
        \/ CreateObjectCommit(p)
        \/ Release(p)

BucketABC == <<"a", "b", "c">>
BucketXYZ == <<"x", "y", "z">>
BucketDot == <<"a", ".", "c">>
BucketShort == <<"a", "b">>
BucketUpper == <<"A", "b", "c">>

KeyA == <<"a">>
KeyAB == <<"a", "/", "b">>
KeyB == <<"b">>
KeyBlank == <<" ">>
KeyBad == <<"a", BadByte>>

\* One caller reading and writing objects of every length, whole and by range.
ObjectDomain ==
    [buckets |-> {BucketABC, BucketDot},
     keys |-> {KeyA, KeyBlank},
     acls |-> {<<>>},
     payloads |-> {Payload(n) : n \in 0 .. MaxLen},
     starts |-> (0 - 1) .. (MaxLen + 1),
     lengths |-> 0 .. (MaxLen + 1),
     ctypes |-> {<<>>},
     md5s |-> {<<>>, Base64Encode(Md5(Payload(1)))},
     prefixes |-> {<<>>},
     markers |-> {<<>>},
     delims |-> {<<>>},
     maxkeys |-> {1},
     nextmarkers |-> {<<>>}]

Next == NextOver({1}, ObjectDomain)

Spec == Init /\ [][Next]_vars

\* Goroutines racing on one bucket and one key.
LockDomain ==
    [buckets |-> {BucketABC},
     keys |-> {KeyA},
     acls |-> {ACLPublicRead},
     payloads |-> {Payload(1)},
     starts |-> {0},
     lengths |-> {1},
     ctypes |-> {<<>>},
     md5s |-> {<<>>},
     prefixes |-> {<<>>},
     markers |-> {<<>>},
     delims |-> {<<>>},
     maxkeys |-> {1},
     nextmarkers |-> {<<>>}]

NextLock == NextOver(Procs, LockDomain)

SpecLock == Init /\ [][NextLock]_vars

\* One caller creating buckets and setting ACLs of every kind.
ACLDomain ==
    [buckets |-> {BucketABC, BucketXYZ, BucketDot},
     keys |-> {KeyA},
     acls |-> ValidACLs \cup {<<>>, <<" ">>, <<"bogus">>},
     payloads |-> {Payload(0)},
     starts |-> {0},
     lengths |-> {0},
     ctypes |-> {<<>>},
     md5s |-> {<<>>},
     prefixes |-> {<<>>},
     markers |-> {<<>>},
     delims |-> {<<>>},
     maxkeys |-> {1},
     nextmarkers |-> {<<>>}]

NextACL == NextOver({1}, ACLDomain)

SpecACL == Init /\ [][NextACL]_vars

\* One caller passing good and bad bucket names and keys to every method.
NamesDomain ==
    [buckets |-> {BucketABC, BucketDot, BucketShort, BucketUpper},
     keys |-> {KeyA, <<>>, KeyBlank, KeyBad},
     acls |-> {<<>>, ACLPublicRead, <<"bogus">>},
     payloads |-> {Payload(1)},
     starts |-> {0 - 1, 0},
     lengths |-> {1},
     ctypes |-> {<<>>},
     md5s |-> {<<>>, <<"!!">>},
     prefixes |-> {<<>>, KeyBad},
     markers |-> {<<>>},
     delims |-> {<<>>},
     maxkeys |-> {1},
     nextmarkers |-> {<<>>}]

NextNames == NextOver({1}, NamesDomain)

SpecNames == Init /\ [][NextNames]_vars

KeyC == <<"c">>

\* One caller listing a bucket by prefix, marker, delimiter and max-keys.
ListDomain ==
    [buckets |-> {BucketABC},
     keys |-> {KeyA, KeyAB, KeyB, KeyC},
     acls |-> {<<>>},
     payloads |-> {Payload(1)},
     starts |-> {0},
     lengths |-> {1},
     ctypes |-> {<<>>},
     md5s |-> {<<>>},
     prefixes |-> {<<>>, <<"a">>},
     markers |-> {<<>>, KeyA},
     delims |-> {<<>>, <<"/">>},
     maxkeys |-> 0 .. 2,
     nextmarkers |-> {<<>>, <<"z">>}]

NextList == NextOver({1}, ListDomain)

SpecList == Init /\ [][NextList]_vars

\* One caller writing objects with every kind of content type and expected
\* digest, and reading their metadata back.
MetaDomain ==
    [buckets |-> {BucketABC},
     keys |-> {KeyA, KeyB},
     acls |-> {<<>>},
     payloads |-> {Payload(1), Payload(2)},
     starts |-> {0},
     lengths |-> {1},
     ctypes |-> {<<>>, <<" ">>, <<"text">>, <<" ", "text", " ">>},
     md5s |-> {<<>>, <<" ">>, <<"!!">>, Base64Encode(Md5(Payload(1))),
               <<" ">> \o Base64Encode(Md5(Payload(1))) \o <<" ">>},
     prefixes |-> {<<>>},
     markers |-> {<<>>},
     delims |-> {<<>>},
     maxkeys |-> {1},
     nextmarkers |-> {<<>>}]

NextMeta == NextOver({1}, MetaDomain)

SpecMeta == Init /\ [][NextMeta]_vars

\* Startup: nothing has run, the store variable is still nil, no channel.
InitStart ==
    /\ DriverIdle
    /\ nilDonut = TRUE
    /\ paths = <<>>
    /\ startPc = "init"
    /\ errorChannel = NoChannel
    /\ QueryIdle
    /\ DiskIdle

\* Start, its goroutine, and one caller using the driver Start returned.
NextStart ==
    \/ \E ps \in PathLists, built \in BOOLEAN : Start(ps, built)
    \/ StartGoroutine
    \/ NextOver({1}, NamesDomain)

\* The Go scheduler runs every goroutine that can run.
SpecStart == InitStart /\ [][NextStart]_vars /\ WF_vars(StartGoroutine)

\* Disks opened on every kind of path, and every name passed to them.
SpecDisk == Init /\ [][NextDisk]_vars

\* A query with any keys, ranged over in any order.
InitQuery ==
    /\ DriverIdle
    /\ nilDonut = FALSE
    /\ paths = <<PathD0>>
    /\ startPc = "done"
    /\ errorChannel = [state |-> "closed", sent |-> 0]
    /\ values \in UNION {Orders(S) : S \in SUBSET QueryKeys}
    /\ isACL = "unset"
    /\ DiskIdle

NextQuery == IsRequestBucketACL

SpecQuery == InitQuery /\ [][NextQuery]_vars

----------------------------------------------------------------------------
(* Properties.                                                             *)

Mutators == {"CreateBucket", "SetBucketMetadata", "CreateObject"}

ReadMethods == {"ListBuckets", "GetBucketMetadata", "GetObject", "GetPartialObject",
                "GetObjectMetadata", "ListObjects"}

\* Between its lock acquisition and its release.
Holding(p) == pc[p] \in {"locked", "shards", "ret"}

\* The goroutine has run the body of method op and is about to return.
Returned(p, op) == pc[p] = "ret" /\ call[p].op = op

\* The object a call names.
ObjectOf(p) == <<call[p].bucket, call[p].key>>

\* C1: while a mutator (CreateBucket, SetBucketMetadata, CreateObject) is
\* between its lock acquisition and release, no other facade method is
\* between its own acquisition and release.
C1_MutualExclusion ==
    \A p \in Procs : \A q \in Procs \ {p} :
        (Holding(p) /\ call[p].op \in Mutators) => ~Holding(q)

\* C1 witness: a CreateObject holds the lock with its shards written while
\* another goroutine has entered a method and waits for the lock.
C1_Witness ==
    \E p \in Procs : \E q \in Procs \ {p} :
        pc[p] = "shards" /\ pc[q] = "wait"

\* C2: for a stored object of size S, GetPartialObject with start = S
\* returns 0 bytes without error when length = 0 and fails with
\* InvalidRange when length > 0.
C2_RangeAtEnd ==
    \A p \in Procs :
        (/\ Returned(p, "GetPartialObject")
         /\ ObjectOf(p) \in DOMAIN put
         /\ call[p].start = Len(put[ObjectOf(p)]))
        => IF call[p].length = 0
           THEN ret[p].err = None /\ ret[p].n = 0 /\ ret[p].written = <<>>
           ELSE ret[p].err = "InvalidRange"

\* C3: for a stored object with payload P of size S and a range with
\* 0 <= start <= start+length-1 < S, GetPartialObject writes exactly
\* P[start .. start+length) to the sink, returns length and no error.
C3_RangeRead ==
    \A p \in Procs :
        (/\ Returned(p, "GetPartialObject")
         /\ ObjectOf(p) \in DOMAIN put
         /\ 0 <= call[p].start
         /\ call[p].start <= call[p].start + call[p].length - 1
         /\ call[p].start + call[p].length - 1 < Len(put[ObjectOf(p)]))
        => /\ ret[p].err = None
           /\ ret[p].n = call[p].length
           /\ ret[p].written = SubSeq(put[ObjectOf(p)], call[p].start + 1,
                                      call[p].start + call[p].length)

\* C3 witness: a range strictly inside an object, starting after the
\* first byte and ending at the last one, has been read.
C3_Witness ==
    \E p \in Procs :
        /\ Returned(p, "GetPartialObject")
        /\ ObjectOf(p) \in DOMAIN put
        /\ call[p].start >= 1
        /\ call[p].length >= 2
        /\ call[p].start + call[p].length = Len(put[ObjectOf(p)])
        /\ ret[p].err = None

\* C4: once CreateObject(bucket, key, P) has succeeded, every GetObject of
\* that bucket and key writes exactly P to the sink and returns len(P).
C4_RoundTrip ==
    \A p \in Procs :
        (Returned(p, "GetObject") /\ ObjectOf(p) \in DOMAIN put)
        => /\ ret[p].err = None
           /\ ret[p].written = put[ObjectOf(p)]
           /\ ret[p].n = Len(put[ObjectOf(p)])

\* C4 witness: an object whose last block was padded has been read back.
C4_Witness ==
    \E p \in Procs :
        /\ Returned(p, "GetObject")
        /\ ObjectOf(p) \in DOMAIN put
        /\ Len(put[ObjectOf(p)]) % BlockSize # 0
        /\ ret[p].n = Len(put[ObjectOf(p)])

\* C5: the ACL stored for every existing bucket is one of private,
\* public-read, public-read-write, authenticated-read.
C5_ACLEnumeration ==
    \A b \in DOMAIN buckets : buckets[b].acl \in ValidACLs

\* The objects whose shards are on disk without their metadata.
Partial == DOMAIN shards \ DOMAIN meta

C7_BadBucket(name) == ~IsValidBucket(name) \/ ContainsChar(name, ".")
C7_BadKey(name) == ~IsValidObjectName(name) \/ TrimSpace(name) = <<>>

BucketMethods == {"CreateBucket", "GetBucketMetadata", "SetBucketMetadata", "GetObject",
                  "GetPartialObject", "GetObjectMetadata", "ListObjects", "CreateObject"}

KeyMethods == {"GetObject", "GetPartialObject", "GetObjectMetadata", "CreateObject"}

\* The body of p's method runs to its return statement in this step.
BodyReturns(p) == pc[p] = "locked" /\ pc'[p] = "ret"

\* C7: with a non-nil store, a method given a bad bucket name (and, for
\* CreateBucket, a valid ACL) returns BucketNameInvalid, and an object
\* method given a good bucket name and a bad or blank key returns
\* ObjectNameInvalid; neither calls the store or changes it.
C7_NamesValidated ==
    [][\A p \in Procs :
         (BodyReturns(p) /\ ~nilDonut /\ call[p].op \in BucketMethods)
         => /\ (/\ C7_BadBucket(call[p].bucket)
                /\ (call[p].op = "CreateBucket" => IsValidBucketACL(call[p].acl)))
               => /\ ret'[p].err = "BucketNameInvalid"
                  /\ ret'[p].calls = <<>>
                  /\ UNCHANGED storeVars
            /\ (/\ call[p].op \in KeyMethods
                /\ ~C7_BadBucket(call[p].bucket)
                /\ C7_BadKey(call[p].key))
               => /\ ret'[p].err = "ObjectNameInvalid"
                  /\ ret'[p].calls = <<>>
                  /\ UNCHANGED storeVars]_vars

\* C7 witness: CreateObject has refused a blank key of an existing bucket.
C7_Witness ==
    \E p \in Procs :
        /\ Returned(p, "CreateObject")
        /\ call[p].bucket \in DOMAIN buckets
        /\ call[p].key = KeyBlank
        /\ ret[p].err = "ObjectNameInvalid"

\* C8: a CreateBucket with a valid ACL for a name that already exists
\* fails with BucketExists and leaves the bucket's ACL and creation time
\* as they were.
C8_DuplicateBucket ==
    [][\A p \in Procs :
         (/\ BodyReturns(p)
          /\ call[p].op = "CreateBucket"
          /\ IsValidBucketACL(call[p].acl)
          /\ call[p].bucket \in DOMAIN buckets)
         => /\ ret'[p].err = "BucketExists"
            /\ buckets' = buckets]_vars

\* C8 witness: a second CreateBucket, with another ACL than the bucket
\* has, has failed with BucketExists.
C8_Witness ==
    \E p \in Procs :
        /\ Returned(p, "CreateBucket")
        /\ ret[p].err = "BucketExists"
        /\ call[p].bucket \in DOMAIN buckets
        /\ DefaultACL(call[p].acl) # buckets[call[p].bucket].acl

\* C9: every entry ListBuckets returns carries the ACL that
\* GetBucketMetadata returns for that bucket.
C9_ListBucketsACL ==
    \A p \in Procs :
        (Returned(p, "ListBuckets") /\ ret[p].err = None)
        => \A i \in 1 .. Len(ret[p].results) :
              ret[p].results[i].ACL = DoGetBucketMetadata(ret[p].results[i].Name).metadata.ACL

\* C10: when ListObjects returns a truncated listing for a request with a
\* delimiter, NextMarker is the last (greatest) key of the objects it
\* returns; otherwise NextMarker is what the request carried.
C10_NextMarker ==
    \A p \in Procs :
        (Returned(p, "ListObjects") /\ ret[p].err = None)
        => IF ret[p].resources.IsTruncated /\ call[p].resources.Delimiter # <<>>
           THEN /\ ret[p].results # <<>>
                /\ ret[p].resources.NextMarker = ret[p].results[Len(ret[p].results)].Key
                /\ \A i \in 1 .. Len(ret[p].results) :
                      ~StrLess(ret[p].resources.NextMarker, ret[p].results[i].Key)
           ELSE ret[p].resources.NextMarker = call[p].resources.NextMarker

\* C10 witness: a delimited listing truncated to two keys has returned,
\* with a request whose own NextMarker was another key.
C10_Witness ==
    \E p \in Procs :
        /\ Returned(p, "ListObjects")
        /\ ret[p].err = None
        /\ ret[p].resources.IsTruncated
        /\ call[p].resources.Delimiter # <<>>
        /\ Len(ret[p].results) = 2
        /\ ret[p].resources.NextMarker # call[p].resources.NextMarker

\* C11: every entry ListObjects returns carries the Size, Created and Md5
\* that GetObjectMetadata returns for the same bucket and key.
C11_ListingMetadata ==
    \A p \in Procs :
        (Returned(p, "ListObjects") /\ ret[p].err = None)
        => \A i \in 1 .. Len(ret[p].results) :
              LET e == ret[p].results[i]
                  m == DoGetObjectMetadata(call[p].bucket, e.Key)
              IN /\ m.err = None
                 /\ e.Size = m.metadata.Size
                 /\ e.Created = m.metadata.Created
                 /\ e.Md5 = m.metadata.Md5

\* C12: every location a Disk operation hands to the filesystem is the
\* root of the Disk or lies below it.
C12_RootConfinement ==
    dret.op \in {"MakeDir", "ListDir", "ListFiles", "CreateFile", "OpenFile"}
    => \A loc \in dret.touched : HasPrefix(loc, Clean(disk.path))

\* C13: isRequestBucketACL returns true exactly when acl is among the keys
\* of the query, in whatever order the keys are ranged over.
C13_ACLRequest ==
    isACL # "unset" => (isACL = "true" <=> "acl" \in Range(values))

\* C14: GetObjectMetadata of an object CreateObject has stored returns the
\* length of the payload as Size, the digest CreateObject returned as Md5,
\* and as ContentType the trimmed content type given, or
\* application/octet-stream when that was empty or blank.
C14_MetadataReadBack ==
    \A p \in Procs :
        (Returned(p, "GetObjectMetadata") /\ ObjectOf(p) \in DOMAIN putArgs)
        => /\ ret[p].err = None
           /\ ret[p].metadata.Size = Len(put[ObjectOf(p)])
           /\ ret[p].metadata.Md5 = putArgs[ObjectOf(p)].md5
           /\ ret[p].metadata.ContentType =
                 IF TrimSpace(putArgs[ObjectOf(p)].contentType) = <<>>
                 THEN <<"application/octet-stream">>
                 ELSE TrimSpace(putArgs[ObjectOf(p)].contentType)

\* C14 witness: the metadata of an object written with a blank content
\* type, and of one written with a padded content type, has been read.
C14_Witness ==
    \E p \in Procs :
        /\ Returned(p, "GetObjectMetadata")
        /\ ObjectOf(p) \in DOMAIN putArgs
        /\ putArgs[ObjectOf(p)].contentType = <<" ">>
        /\ \E o \in DOMAIN putArgs : putArgs[o].contentType = <<" ", "text", " ">>
        /\ ret[p].err = None

\* C15: ListBuckets returns exactly one entry for each bucket of the
\* store, in strictly ascending order of bucket name.
C15_ListBucketsExact ==
    \A p \in Procs :
        (Returned(p, "ListBuckets") /\ ~nilDonut)
        => /\ ret[p].err = None
           /\ {ret[p].results[i].Name : i \in 1 .. Len(ret[p].results)} = DOMAIN buckets
           /\ Len(ret[p].results) = Cardinality(DOMAIN buckets)
           /\ \A i, j \in 1 .. Len(ret[p].results) :
                 i < j => StrLess(ret[p].results[i].Name, ret[p].results[j].Name)

\* C15 witness: two buckets are listed, the one with the greater name
\* created first, after a creation that failed.
C15_Witness ==
    \E p \in Procs :
        /\ Returned(p, "ListBuckets")
        /\ Len(ret[p].results) = 2
        /\ ret[p].results[1].Created > ret[p].results[2].Created
        /\ BucketDot \notin DOMAIN buckets

\* C16: New returns a usable Disk exactly when the path is non-empty,
\* exists, is a directory and lies on a recognized filesystem; otherwise
\* the Disk is empty, and the error is InvalidArgument for an empty path,
\* "not a directory" (ENOTDIR) for an existing path that is a file, and
\* UnsupportedFilesystem for a directory of an unrecognized filesystem.
C16_DiskOpen ==
    dret.op = "New"
    => LET loc == Clean(dret.arg)
           present == dret.arg # <<>> /\ loc \in DOMAIN fs
           recognized == getFSType(StatfsType(loc)) # "UNKNOWN"
       IN /\ (dret.err = None) <=> (present /\ fs[loc] = "dir" /\ recognized)
          /\ dret.err = None => disk.path = dret.arg /\ disk.fsInfo # <<>>
          /\ dret.err # None => disk = NoDisk
          /\ dret.arg = <<>> => dret.err = "InvalidArgument"
          /\ (present /\ fs[loc] = "file") => dret.err = "ENOTDIR"
          /\ (present /\ fs[loc] = "dir" /\ ~recognized)
                => dret.err = "UnsupportedFilesystem"

\* C16 witness: New has refused a regular file.
C16_Witness ==
    /\ dret.op = "New"
    /\ dret.arg = PathFile
    /\ dret.err = "ENOTDIR"
    /\ disk = NoDisk

\* C17: once Start has returned, for any list of paths and whether or not
\* the store was built, the error channel is eventually closed; and no
\* value is ever sent on it.
C17_StartupSignalling ==
    /\ (startPc = "spawned") ~> (errorChannel.state = "closed")
    /\ [](errorChannel.sent = 0)

\* C17 witness: the channel is closed after a Start whose store
\* construction failed on a path that is a regular file.
C17_Witness ==
    /\ errorChannel.state = "closed"
    /\ startPc = "done"
    /\ nilDonut
    /\ paths = <<PathFile>>

\* C18: ListObjects always returns a result or an error: it never aborts
\* on indexing past the end of the keys the store returned.
C18_ListObjectsReturns ==
    \A p \in Procs :
        Returned(p, "ListObjects") => ret[p].err # "panic: index out of range"

\* C19: CreateObject with valid names and a non-blank expected MD5 that is
\* not base64 returns an error and an empty digest and does not call
\* PutObject; with an empty or blank expected MD5 it calls PutObject with
\* an empty expected digest.
C19_ExpectedDigest ==
    \A p \in Procs :
        (/\ Returned(p, "CreateObject")
         /\ ~nilDonut
         /\ ~BucketNameBad(call[p].bucket)
         /\ ~ObjectNameBad(call[p].key))
        => /\ (/\ TrimSpace(call[p].md5) # <<>>
               /\ Base64Decode(TrimSpace(call[p].md5)).err # None)
                 => /\ ret[p].err # None
                    /\ ret[p].md5 = <<>>
                    /\ ret[p].calls = <<>>
           /\ TrimSpace(call[p].md5) = <<>>
                 => /\ ret[p].calls = <<"PutObject">>
                    /\ ret[p].expected = <<>>

\* C20: on a driver whose store is nil, every method returns InternalError
\* for all arguments and calls nothing of the store, which stays empty.
C20_NilStore ==
    nilDonut
    => /\ \A p \in Procs :
             pc[p] = "ret" => ret[p].err = "InternalError" /\ ret[p].calls = <<>>
       /\ buckets = <<>> /\ shards = <<>> /\ meta = <<>>

\* C20 witness: Start returned a driver with a nil store, and CreateObject
\* was called on it with valid names and has returned.
C20_Witness ==
    \E p \in Procs :
        /\ nilDonut
        /\ startPc # "init"
        /\ Returned(p, "CreateObject")
        /\ call[p].bucket = BucketABC
        /\ call[p].key = KeyA
        /\ call[p].md5 = <<>>

\* C21: every reader GetObject or GetPartialObject obtained from the
\* store is closed by the time the method returns, so no reader is open
\* once a read has returned.
C21_ReadersReleased ==
    \A p \in Procs :
        (Returned(p, "GetObject") \/ Returned(p, "GetPartialObject"))
        => openReaders = 0

====
